---- MODULE Spec2Model ----
(***************************************************************************)
(* The multi-peer socket backend (src/src/backend.rs) and the REP socket   *)
(* adapter (src/src/rep.rs) of zmq.rs as state machines.                   *)
(*                                                                         *)
(* Backend: the peer registry (a DashMap, whose shards are write-locked    *)
(* by get_mut / insert / remove / clear), the round-robin rotation queue   *)
(* (a SegQueue), the bounded futures mpsc channels of every peer and the   *)
(* administrative channel to the fair-queue merger.  Every call is run by  *)
(* a task, one step per access to shared state, so that calls of           *)
(* different tasks interleave as they do under the tokio run-time.         *)
(***************************************************************************)
EXTENDS Integers, Sequences, FiniteSets, TLC

VARIABLES
    peers,          \* GenericSocketBackend::peers : identity -> Peer
    round_robin,    \* GenericSocketBackend::round_robin : FIFO of identities
    peer_queue_in,  \* GenericSocketBackend::peer_queue_in : the administrative channel
    shard_of,       \* the DashMap shard every identity hashes to
    locks,          \* per DashMap shard, the task holding its write lock
    task,           \* per task, the call it is in and that call's locals
    connected,      \* history: identities in the order peer_connected registered them
    dispatched,     \* history: the recipients of the successful dispatches, in order
    full_seen,      \* history: some dispatch met a full outbound queue
    stream,         \* RepSocket::_inner, inbound: what the framed stream yields next
    sent,           \* RepSocket::_inner, outbound: the messages written to it
    socket,         \* the call of RepSocket under way, and the last result
    server          \* the call of RepSocketServer::accept under way, and its result

backend == <<peers, round_robin, peer_queue_in, shard_of, locks, task>>
history == <<connected, dispatched, full_seen>>
adapter == <<stream, sent, socket, server>>
vars == <<peers, round_robin, peer_queue_in, shard_of, locks, task,
          connected, dispatched, full_seen, stream, sent, socket, server>>

----------------------------------------------------------------------------
(* Bounds of the model *)

\* buffer of every bounded channel (default_queue_size in the source)
QueueSize == 0
\* number of DashMap shards
NumShards == 2
\* most rotation entries, counting the ones a call has in hand
MaxRotation == 3
\* most announcements waiting in the administrative channel
MaxPending == 1
\* most successful dispatches recorded by the history
MaxDispatch == 5
\* most items the inbound stream of a REP socket yields before it ends, and
\* most messages a REP socket writes
MaxFrames == 2
\* most bytes of a payload given to RepSocket::send
MaxBytes == 2

Ids == {"A", "B", "C"}
NoId == "-"
Tasks == {"t1", "t2"}
NoTask == "-"
Shards == 1..NumShards

----------------------------------------------------------------------------
(* codec::Message *)

Greeting == [tag |-> "Greeting"]
Command == [tag |-> "Command"]
Message(m) == [tag |-> "Message", m |-> m]
Multipart(m) == [tag |-> "Multipart", m |-> m]
NoMessage == [tag |-> "None"]

\* a frame: its bytes and its continuation flag
Frame(data, more) == [data |-> data, more |-> more]

IsData(message) == message.tag \in {"Message", "Multipart"}

DataMessages ==
    { Message(Frame(<<1>>, FALSE)),
      Multipart(<<Frame(<<>>, TRUE), Frame(<<1>>, FALSE)>>) }
Messages == {Greeting, Command} \cup DataMessages

----------------------------------------------------------------------------
(* futures::channel::mpsc, bounded: the queue, whether the (single) sender *)
(* is parked, and whether the receiver is still there                      *)

Channel == [q |-> <<>>, parked |-> FALSE, open |-> TRUE]

\* mutant: a channel whose receiver is gone is reported as full
TrySendResultClosedIsFull(ch) ==
    IF ch.parked \/ ~ch.open THEN "Full" ELSE "Ok"

\* Sender::try_send: Full while the sender is parked, Disconnected once the
\* receiver is gone; otherwise the message is queued, and the sender parks
\* when the queue then holds more than the buffer.
TrySendResult(ch) ==
    IF ch.parked THEN "Full"
    ELSE IF ~ch.open THEN "Disconnected"
    ELSE "Ok"

DoSend(ch, message) ==
    [ch EXCEPT !.q = Append(@, message),
               !.parked = Len(ch.q) + 1 > QueueSize]

\* Sender::clone: a new sender on the same channel, which has not sent and
\* so is not parked
Clone(ch) == [ch EXCEPT !.parked = FALSE]

\* Receiver::next_message: takes the head and unparks the sender
Receive(ch) == [ch EXCEPT !.q = Tail(@), !.parked = FALSE]

\* Receiver dropped: the channel closes, what it holds is dropped, and the
\* parked sender is woken
Close(ch) == [q |-> <<>>, parked |-> FALSE, open |-> FALSE]

----------------------------------------------------------------------------
(* Peer and the registry *)

Peer == [send_queue |-> Channel, recv_queue_in |-> Channel]

Registered == DOMAIN peers

Insert(map, id, peer) ==
    [i \in (DOMAIN map) \cup {id} |-> IF i = id THEN peer ELSE map[i]]

Remove(map, id) == [i \in (DOMAIN map) \ {id} |-> map[i]]

\* DashMap::clear goes shard by shard: this is the clearing of one shard
ClearShard(map, s) == [i \in {j \in DOMAIN map : shard_of[j] # s} |-> map[i]]

LockFree(id) == locks[shard_of[id]] = NoTask

Lock(t, id) == [locks EXCEPT ![shard_of[id]] = t]

Unlock(id) == [locks EXCEPT ![shard_of[id]] = NoTask]

----------------------------------------------------------------------------
(* Tasks *)

NoResult == [kind |-> "None"]
Unit == [kind |-> "Unit"]
Ok(id) == [kind |-> "Ok", peer |-> id]
Panic(why) == [kind |-> "Panic", why |-> why]
ReturnToSender(m) == [kind |-> "ReturnToSender", message |-> m]
ReturnToSenderMultipart(m) == [kind |-> "ReturnToSenderMultipart", messages |-> m]

\* A task is idle or inside a call.  call, peer_id and arg are the call and
\* its arguments, kept after the call has returned together with its result;
\* message, next_peer_id and shard are the locals of the call under way;
\* met_full records that the dispatch has met a full outbound queue, and
\* queued_on the peers on whose queues it has put its message.
Start(call, pc, id, message) ==
    [pc |-> pc, call |-> call, peer_id |-> id, arg |-> message,
     message |-> message, next_peer_id |-> NoId, shard |-> 0,
     met_full |-> FALSE, queued_on |-> <<>>, result |-> NoResult]

NoCall == Start("none", "idle", NoId, NoMessage)

At(t, pc) == task[t].pc = pc

Goto(t, pc) == [task EXCEPT ![t].pc = pc]

Return(t, result) ==
    [task EXCEPT ![t].pc = "idle", ![t].message = NoMessage,
                 ![t].next_peer_id = NoId, ![t].shard = 0, ![t].result = result]

Returned(t, call) == task[t].pc = "idle" /\ task[t].call = call

\* rotation entries, counting the identities that calls under way have
\* popped or are about to push
RotationLoad ==
    Len(round_robin)
    + Cardinality({t \in Tasks : task[t].pc \in
        {"rr_get", "rr_push", "rr_repush", "pc_insert", "pc_push"}})

\* announcements, counting the ones that calls under way are about to make
PendingLoad ==
    Len(peer_queue_in.q)
    + Cardinality({t \in Tasks : task[t].pc \in
        {"pc_insert", "pc_push", "pc_announce"}})

\* the model's caps on the calls of peer_connected
ConnectAllowed(pending) ==
    /\ RotationLoad < MaxRotation
    /\ PendingLoad < pending

----------------------------------------------------------------------------
(* GenericSocketBackend::send_round_robin *)

Call_send_round_robin(t, message) ==
    /\ At(t, "idle")
    /\ task' = [task EXCEPT ![t] = Start("send_round_robin", "rr_pop", NoId, message)]
    /\ UNCHANGED <<peers, round_robin, peer_queue_in, shard_of, locks>>

\* mutant: the multipart payload comes back cut to its first frame
NoPeersFirstFrame(message) ==
    CASE message.tag = "Greeting" -> Panic("Sending greeting is not supported")
      [] message.tag = "Command" -> Panic("Sending commands is not supported")
      [] message.tag = "Message" -> ReturnToSender(message.m)
      [] message.tag = "Multipart" -> ReturnToSender(message.m[1])

\* what the call ends with when round_robin.pop() finds nothing
NoPeers(message) ==
    CASE message.tag = "Greeting" -> Panic("Sending greeting is not supported")
      [] message.tag = "Command" -> Panic("Sending commands is not supported")
      [] message.tag = "Message" -> ReturnToSender(message.m)
      [] message.tag = "Multipart" -> ReturnToSenderMultipart(message.m)

\* mutant: the identity goes to the head of the rotation
PushFront(queue, id) == <<id>> \o queue

\* where a re-pushed identity goes in the rotation
Push(queue, id) == Append(queue, id)

\* mutant: the pop takes the newest entry of the rotation
RoundRobinPopBack(t) ==
    /\ At(t, "rr_pop")
    /\ IF round_robin = <<>>
       THEN /\ task' = Return(t, NoPeers(task[t].message))
            /\ UNCHANGED round_robin
       ELSE /\ task' = [task EXCEPT ![t].pc = "rr_get",
                                    ![t].next_peer_id = round_robin[Len(round_robin)]]
            /\ round_robin' = SubSeq(round_robin, 1, Len(round_robin) - 1)
    /\ UNCHANGED <<peers, peer_queue_in, shard_of, locks>>

\* let next_peer_id = match self.round_robin.pop()
RoundRobinPop(t) ==
    /\ At(t, "rr_pop")
    /\ IF round_robin = <<>>
       THEN /\ task' = Return(t, NoPeers(task[t].message))
            /\ UNCHANGED round_robin
       ELSE /\ task' = [task EXCEPT ![t].pc = "rr_get",
                                    ![t].next_peer_id = Head(round_robin)]
            /\ round_robin' = Tail(round_robin)
    /\ UNCHANGED <<peers, peer_queue_in, shard_of, locks>>

\* mutant: an identity that is not registered is pushed back
RoundRobinGetRequeueStale(t) ==
    LET id == task[t].next_peer_id IN
    /\ At(t, "rr_get")
    /\ LockFree(id)
    /\ IF id \notin Registered
       THEN /\ task' = [task EXCEPT ![t].pc = "rr_pop", ![t].next_peer_id = NoId]
            /\ round_robin' = Push(round_robin, id)
            /\ UNCHANGED <<peers, locks>>
       ELSE LET send_result == TrySendResult(peers[id].send_queue) IN
            /\ UNCHANGED round_robin
            /\ CASE send_result = "Ok" ->
                    /\ peers' = [peers EXCEPT ![id].send_queue =
                                    DoSend(@, task[t].message)]
                    /\ locks' = Lock(t, id)
                    /\ task' = [task EXCEPT ![t].pc = "rr_push",
                                            ![t].queued_on = Append(@, id)]
              [] send_result = "Full" ->
                    /\ locks' = Lock(t, id)
                    /\ task' = [task EXCEPT ![t].pc = "rr_repush",
                                            ![t].met_full = TRUE]
                    /\ UNCHANGED peers
              [] send_result = "Disconnected" ->
                    /\ task' = [task EXCEPT ![t].pc = "rr_pop",
                                            ![t].next_peer_id = NoId]
                    /\ UNCHANGED <<peers, locks>>
    /\ UNCHANGED <<peer_queue_in, shard_of>>

\* match self.peers.get_mut(&next_peer_id), and the try_send of the Some arm
RoundRobinGet(t) ==
    LET id == task[t].next_peer_id IN
    /\ At(t, "rr_get")
    /\ LockFree(id)
    /\ IF id \notin Registered
       THEN \* None => continue
            /\ task' = [task EXCEPT ![t].pc = "rr_pop", ![t].next_peer_id = NoId]
            /\ UNCHANGED <<peers, locks>>
       ELSE LET send_result == TrySendResult(peers[id].send_queue) IN
            CASE send_result = "Ok" ->
                    /\ peers' = [peers EXCEPT ![id].send_queue =
                                    DoSend(@, task[t].message)]
                    /\ locks' = Lock(t, id)
                    /\ task' = [task EXCEPT ![t].pc = "rr_push",
                                            ![t].queued_on = Append(@, id)]
              [] send_result = "Full" ->
                    /\ locks' = Lock(t, id)
                    /\ task' = [task EXCEPT ![t].pc = "rr_repush",
                                            ![t].met_full = TRUE]
                    /\ UNCHANGED peers
              [] send_result = "Disconnected" ->
                    \* message = e.into_inner(); continue
                    /\ task' = [task EXCEPT ![t].pc = "rr_pop",
                                            ![t].next_peer_id = NoId]
                    /\ UNCHANGED <<peers, locks>>
    /\ UNCHANGED <<round_robin, peer_queue_in, shard_of>>

\* mutant: the identity is returned without being pushed back
RoundRobinPushNoRequeue(t) ==
    LET id == task[t].next_peer_id IN
    /\ At(t, "rr_push")
    /\ locks' = Unlock(id)
    /\ task' = Return(t, Ok(id))
    /\ UNCHANGED <<peers, round_robin, peer_queue_in, shard_of>>

\* Ok(()) => push the identity and return it
RoundRobinPush(t) ==
    LET id == task[t].next_peer_id IN
    /\ At(t, "rr_push")
    /\ round_robin' = Push(round_robin, id)
    /\ locks' = Unlock(id)
    /\ task' = Return(t, Ok(id))
    /\ UNCHANGED <<peers, peer_queue_in, shard_of>>

\* mutant: a full peer is dropped from the rotation like a closed one
RoundRobinRepushDrop(t) ==
    LET id == task[t].next_peer_id IN
    /\ At(t, "rr_repush")
    /\ locks' = Unlock(id)
    /\ task' = [task EXCEPT ![t].pc = "rr_pop", ![t].next_peer_id = NoId]
    /\ UNCHANGED <<peers, round_robin, peer_queue_in, shard_of>>

\* mutant: the message is not taken back from the error of try_send
RoundRobinRepushLoseMessage(t) ==
    LET id == task[t].next_peer_id IN
    /\ At(t, "rr_repush")
    /\ round_robin' = Push(round_robin, id)
    /\ locks' = Unlock(id)
    /\ task' = [task EXCEPT ![t].pc = "rr_pop", ![t].next_peer_id = NoId,
                            ![t].message = NoMessage]
    /\ UNCHANGED <<peers, peer_queue_in, shard_of>>

\* Err(e) with e.is_full(): push the identity, keep the message, continue
RoundRobinRepush(t) ==
    LET id == task[t].next_peer_id IN
    /\ At(t, "rr_repush")
    /\ round_robin' = Push(round_robin, id)
    /\ locks' = Unlock(id)
    /\ task' = [task EXCEPT ![t].pc = "rr_pop", ![t].next_peer_id = NoId]
    /\ UNCHANGED <<peers, peer_queue_in, shard_of>>

----------------------------------------------------------------------------
(* SocketBackend::message_received *)

Call_message_received(t, id, message) ==
    /\ At(t, "idle")
    /\ task' = [task EXCEPT ![t] = Start("message_received", "mr_get", id, message)]
    /\ UNCHANGED <<peers, round_robin, peer_queue_in, shard_of, locks>>

\* mutant: the lookup is unwrapped, so a missing peer panics
MessageReceivedGetUnwrap(t) ==
    LET id == task[t].peer_id IN
    /\ At(t, "mr_get")
    /\ LockFree(id)
    /\ IF id \in Registered
       THEN /\ locks' = Lock(t, id)
            /\ task' = Goto(t, "mr_send")
       ELSE /\ task' = Return(t, Panic("unwrap"))
            /\ UNCHANGED locks
    /\ UNCHANGED <<peers, round_robin, peer_queue_in, shard_of>>

\* if let Some(mut peer) = self.peers.get_mut(peer_id)
MessageReceivedGet(t) ==
    LET id == task[t].peer_id IN
    /\ At(t, "mr_get")
    /\ LockFree(id)
    /\ IF id \in Registered
       THEN /\ locks' = Lock(t, id)
            /\ task' = Goto(t, "mr_send")
       ELSE /\ task' = Return(t, Unit)
            /\ UNCHANGED locks
    /\ UNCHANGED <<peers, round_robin, peer_queue_in, shard_of>>

\* peer.recv_queue_in.send(message): poll_ready, then start_send.  The call
\* is suspended, holding the registry entry, while the sender is parked.
MessageReceivedSend(t) ==
    LET id == task[t].peer_id IN
    /\ At(t, "mr_send")
    /\ ~peers[id].recv_queue_in.parked
    /\ IF peers[id].recv_queue_in.open
       THEN /\ peers' = [peers EXCEPT ![id].recv_queue_in =
                            DoSend(@, task[t].message)]
            /\ task' = Goto(t, "mr_flush")
            /\ UNCHANGED locks
       ELSE \* .expect("Failed to send")
            /\ task' = Return(t, Panic("Failed to send"))
            /\ locks' = Unlock(id)
            /\ UNCHANGED peers
    /\ UNCHANGED <<round_robin, peer_queue_in, shard_of>>

\* .await of the send: its flush is ready once the sender is not parked
MessageReceivedFlush(t) ==
    LET id == task[t].peer_id IN
    /\ At(t, "mr_flush")
    /\ ~peers[id].recv_queue_in.parked
    /\ locks' = Unlock(id)
    /\ task' = Return(t, Unit)
    /\ UNCHANGED <<peers, round_robin, peer_queue_in, shard_of>>

----------------------------------------------------------------------------
(* MultiPeer::peer_connected *)

Call_peer_connected(t, id) ==
    /\ At(t, "idle")
    /\ task' = [task EXCEPT ![t] = Start("peer_connected", "pc_insert", id, NoMessage)]
    /\ UNCHANGED <<peers, round_robin, peer_queue_in, shard_of, locks>>

\* mutant: the identity is pushed to the rotation first, the insert into
\* the registry being left for later
PeerConnectedInsertPushFirst(t) ==
    LET id == task[t].peer_id IN
    /\ At(t, "pc_insert")
    /\ round_robin' = Push(round_robin, id)
    /\ task' = Goto(t, "pc_push")
    /\ UNCHANGED <<peers, peer_queue_in, shard_of, locks>>

\* self.peers.insert(peer_id.clone(), Peer { .. })
PeerConnectedInsert(t) ==
    LET id == task[t].peer_id IN
    /\ At(t, "pc_insert")
    /\ LockFree(id)
    /\ peers' = Insert(peers, id, Peer)
    /\ task' = Goto(t, "pc_push")
    /\ UNCHANGED <<round_robin, peer_queue_in, shard_of, locks>>

\* self.round_robin.push(peer_id.clone())
PeerConnectedPush(t) ==
    /\ At(t, "pc_push")
    /\ round_robin' = Push(round_robin, task[t].peer_id)
    /\ task' = Goto(t, "pc_announce")
    /\ UNCHANGED <<peers, peer_queue_in, shard_of, locks>>

\* mutant: the announcement goes through the backend's own sender, which
\* parks when the channel holds more than its buffer
PeerConnectedAnnounceOwnSender(t) ==
    LET id == task[t].peer_id IN
    /\ At(t, "pc_announce")
    /\ IF TrySendResult(peer_queue_in) = "Ok"
       THEN /\ peer_queue_in' = DoSend(peer_queue_in, id)
            /\ task' = Return(t, Unit)
            /\ UNCHANGED peers
       ELSE /\ task' = Return(t, Panic("unwrap"))
            /\ peers' = IF id \in Registered
                        THEN [peers EXCEPT ![id].recv_queue_in = Close(@)]
                        ELSE peers
            /\ UNCHANGED peer_queue_in
    /\ UNCHANGED <<round_robin, shard_of, locks>>

\* self.peer_queue_in.clone().try_send((peer_id, in_queue_receiver)).unwrap():
\* the clone is a new sender, which is never parked, so the send fails only
\* when the merger has dropped its receiver; the unwrap then panics and
\* in_queue_receiver is dropped with the error.
PeerConnectedAnnounce(t) ==
    LET id == task[t].peer_id
        sender == Clone(peer_queue_in)
    IN
    /\ At(t, "pc_announce")
    /\ IF TrySendResult(sender) = "Ok"
       THEN /\ peer_queue_in' = [DoSend(sender, id) EXCEPT
                                    !.parked = peer_queue_in.parked]
            /\ task' = Return(t, Unit)
            /\ UNCHANGED peers
       ELSE /\ task' = Return(t, Panic("unwrap"))
            /\ peers' = IF id \in Registered
                        THEN [peers EXCEPT ![id].recv_queue_in = Close(@)]
                        ELSE peers
            /\ UNCHANGED peer_queue_in
    /\ UNCHANGED <<round_robin, shard_of, locks>>

----------------------------------------------------------------------------
(* MultiPeer::peer_disconnected, SocketBackend::shutdown *)

Call_peer_disconnected(t, id) ==
    /\ At(t, "idle")
    /\ task' = [task EXCEPT ![t] = Start("peer_disconnected", "pd_remove", id, NoMessage)]
    /\ UNCHANGED <<peers, round_robin, peer_queue_in, shard_of, locks>>

\* self.peers.remove(peer_id)
PeerDisconnectedRemove(t) ==
    LET id == task[t].peer_id IN
    /\ At(t, "pd_remove")
    /\ LockFree(id)
    /\ peers' = Remove(peers, id)
    /\ task' = Return(t, Unit)
    /\ UNCHANGED <<round_robin, peer_queue_in, shard_of, locks>>

Call_shutdown(t) ==
    /\ At(t, "idle")
    /\ task' = [task EXCEPT ![t] =
                    [Start("shutdown", "sd_clear", NoId, NoMessage) EXCEPT !.shard = 1]]
    /\ UNCHANGED <<peers, round_robin, peer_queue_in, shard_of, locks>>

\* mutant: only the first shard is cleared
ShutdownClearFirstShard(t) ==
    LET s == task[t].shard IN
    /\ At(t, "sd_clear")
    /\ locks[s] = NoTask
    /\ peers' = ClearShard(peers, s)
    /\ task' = Return(t, Unit)
    /\ UNCHANGED <<round_robin, peer_queue_in, shard_of, locks>>

\* self.peers.clear(): every shard in turn, under its write lock
ShutdownClear(t) ==
    LET s == task[t].shard IN
    /\ At(t, "sd_clear")
    /\ locks[s] = NoTask
    /\ peers' = ClearShard(peers, s)
    /\ task' = IF s = NumShards THEN Return(t, Unit)
               ELSE [task EXCEPT ![t].shard = s + 1]
    /\ UNCHANGED <<round_robin, peer_queue_in, shard_of, locks>>

----------------------------------------------------------------------------
(* The other ends of the channels: the peer's I/O task, which owns the     *)
(* receiver of send_queue, and the fair-queue merger, which owns the       *)
(* receivers of recv_queue_in and of peer_queue_in                         *)

IoTaskReceive(id) ==
    /\ id \in Registered
    /\ peers[id].send_queue.q # <<>>
    /\ peers' = [peers EXCEPT ![id].send_queue = Receive(@)]
    /\ UNCHANGED <<round_robin, peer_queue_in, shard_of, locks, task>>

IoTaskDropReceiver(id) ==
    /\ id \in Registered
    /\ peers[id].send_queue.open
    /\ peers' = [peers EXCEPT ![id].send_queue = Close(@)]
    /\ UNCHANGED <<round_robin, peer_queue_in, shard_of, locks, task>>

FairQueueReceive(id) ==
    /\ id \in Registered
    /\ peers[id].recv_queue_in.q # <<>>
    /\ peers' = [peers EXCEPT ![id].recv_queue_in = Receive(@)]
    /\ UNCHANGED <<round_robin, peer_queue_in, shard_of, locks, task>>

FairQueueAdmit ==
    /\ peer_queue_in.q # <<>>
    /\ peer_queue_in' = Receive(peer_queue_in)
    /\ UNCHANGED <<peers, round_robin, shard_of, locks, task>>

\* the merger ends: it drops the administrative receiver and every inbound
\* receiver it was given
FairQueueStop ==
    /\ peer_queue_in.open
    /\ peer_queue_in' = Close(peer_queue_in)
    /\ peers' = [i \in Registered |->
                    IF \E t \in Tasks : task[t].peer_id = i
                                        /\ task[t].pc \in {"pc_push", "pc_announce"}
                    THEN peers[i]
                    ELSE [peers[i] EXCEPT !.recv_queue_in = Close(@)]]
    /\ UNCHANGED <<round_robin, shard_of, locks, task>>

----------------------------------------------------------------------------
(* Specifications of the backend.  The calls a task may make, the          *)
(* identities and the messages are drawn from the sets each specification  *)
(* names; the tasks a specification does not name stay idle.               *)

InitBackend(assignments) ==
    /\ peers = << >>
    /\ round_robin = <<>>
    /\ peer_queue_in = Channel
    /\ shard_of \in assignments
    /\ locks = [s \in Shards |-> NoTask]
    /\ task = [t \in Tasks |-> NoCall]

\* the socket's position: arg is the payload given to the last send and read
\* the items the last recv has taken from the stream
NoSocketCall ==
    [pc |-> "idle", call |-> "none", arg |-> <<>>, read |-> <<>>,
     result |-> [kind |-> "None"]]

\* no history, and the REP adapter left aside
InitHistory ==
    /\ connected = <<>>
    /\ dispatched = <<>>
    /\ full_seen = FALSE
    /\ stream = <<>>
    /\ sent = <<>>
    /\ socket = NoSocketCall
    /\ server = [pc |-> "idle", greet |-> "none", ready |-> "none",
                 result |-> [kind |-> "None"]]

\* the ways the identities of ids fall into shards (shards are
\* interchangeable, so the first identity is put in shard 1)
ShardAssignments(ids, first) ==
    {f \in [Ids -> Shards] : f[first] = 1 /\ \A i \in Ids \ ids : f[i] = 1}

\* one assignment: "A" in shard 1, "B" in shard 2, "C" with "A"
SpreadAssignment == [i \in Ids |-> IF i = "B" THEN NumShards ELSE 1]

----------------------------------------------------------------------------
(* Spec: one caller making every call of the backend, one call at a time   *)
(* and dispatching data messages, while the I/O tasks and the merger run   *)

CallerIds == {"A", "B"}
Caller == "t1"
InboundMessages == {Message(Frame(<<1>>, FALSE))}

Init == InitBackend({SpreadAssignment}) /\ InitHistory

Next ==
    \/ \E message \in DataMessages :
            Call_send_round_robin(Caller, message) /\ UNCHANGED <<history, adapter>>
    \/ \E id \in CallerIds, message \in InboundMessages :
            Call_message_received(Caller, id, message) /\ UNCHANGED <<history, adapter>>
    \/ \E id \in CallerIds :
          ConnectAllowed(MaxPending) /\ Call_peer_connected(Caller, id)
          /\ UNCHANGED <<history, adapter>>
    \/ \E id \in CallerIds : Call_peer_disconnected(Caller, id) /\ UNCHANGED <<history, adapter>>
    \/ Call_shutdown(Caller) /\ UNCHANGED <<history, adapter>>
    \/ RoundRobinPop(Caller) /\ UNCHANGED <<history, adapter>>
    \/ RoundRobinGet(Caller) /\ UNCHANGED <<history, adapter>>
    \/ RoundRobinPush(Caller) /\ UNCHANGED <<history, adapter>>
    \/ RoundRobinRepush(Caller) /\ UNCHANGED <<history, adapter>>
    \/ MessageReceivedGet(Caller) /\ UNCHANGED <<history, adapter>>
    \/ MessageReceivedSend(Caller) /\ UNCHANGED <<history, adapter>>
    \/ MessageReceivedFlush(Caller) /\ UNCHANGED <<history, adapter>>
    \/ PeerConnectedInsert(Caller) /\ UNCHANGED <<history, adapter>>
    \/ PeerConnectedPush(Caller) /\ UNCHANGED <<history, adapter>>
    \/ PeerConnectedAnnounce(Caller) /\ UNCHANGED <<history, adapter>>
    \/ PeerDisconnectedRemove(Caller) /\ UNCHANGED <<history, adapter>>
    \/ ShutdownClear(Caller) /\ UNCHANGED <<history, adapter>>
    \/ \E id \in CallerIds : IoTaskReceive(id) /\ UNCHANGED <<history, adapter>>
    \/ \E id \in CallerIds : IoTaskDropReceiver(id) /\ UNCHANGED <<history, adapter>>
    \/ \E id \in CallerIds : FairQueueReceive(id) /\ UNCHANGED <<history, adapter>>
    \/ FairQueueAdmit /\ UNCHANGED <<history, adapter>>
    \/ FairQueueStop /\ UNCHANGED <<history, adapter>>

Spec == Init /\ [][Next]_vars

----------------------------------------------------------------------------
(* SpecAnyMessage: the same caller, which also hands Greeting and Command  *)
(* messages to send_round_robin                                            *)

NextAnyMessage ==
    \/ \E message \in {Greeting, Command} :
            Call_send_round_robin(Caller, message) /\ UNCHANGED <<history, adapter>>
    \/ Next

SpecAnyMessage == Init /\ [][NextAnyMessage]_vars

----------------------------------------------------------------------------
(* SpecConcurrent: a dispatcher and a peer task calling concurrently.  The *)
(* dispatcher sends one data message at a time; the peer task connects and *)
(* disconnects peers and delivers their inbound messages.                  *)

Dispatcher == "t1"
PeerTask == "t2"
ConcurrentIds == {"A", "B"}
OneMessage == {Message(Frame(<<1>>, FALSE))}

InitConcurrent == InitBackend(ShardAssignments(ConcurrentIds, "A")) /\ InitHistory

NextConcurrent ==
    \/ \E message \in OneMessage :
            Call_send_round_robin(Dispatcher, message) /\ UNCHANGED <<history, adapter>>
    \/ RoundRobinPop(Dispatcher) /\ UNCHANGED <<history, adapter>>
    \/ RoundRobinGet(Dispatcher) /\ UNCHANGED <<history, adapter>>
    \/ RoundRobinPush(Dispatcher) /\ UNCHANGED <<history, adapter>>
    \/ RoundRobinRepush(Dispatcher) /\ UNCHANGED <<history, adapter>>
    \/ \E id \in ConcurrentIds, message \in OneMessage :
            Call_message_received(PeerTask, id, message) /\ UNCHANGED <<history, adapter>>
    \/ \E id \in ConcurrentIds :
          ConnectAllowed(MaxPending) /\ Call_peer_connected(PeerTask, id)
          /\ UNCHANGED <<history, adapter>>
    \/ \E id \in ConcurrentIds : Call_peer_disconnected(PeerTask, id) /\ UNCHANGED <<history, adapter>>
    \/ MessageReceivedGet(PeerTask) /\ UNCHANGED <<history, adapter>>
    \/ MessageReceivedSend(PeerTask) /\ UNCHANGED <<history, adapter>>
    \/ MessageReceivedFlush(PeerTask) /\ UNCHANGED <<history, adapter>>
    \/ PeerConnectedInsert(PeerTask) /\ UNCHANGED <<history, adapter>>
    \/ PeerConnectedPush(PeerTask) /\ UNCHANGED <<history, adapter>>
    \/ PeerConnectedAnnounce(PeerTask) /\ UNCHANGED <<history, adapter>>
    \/ PeerDisconnectedRemove(PeerTask) /\ UNCHANGED <<history, adapter>>
    \/ \E id \in ConcurrentIds : IoTaskReceive(id) /\ UNCHANGED <<history, adapter>>
    \/ \E id \in ConcurrentIds : FairQueueReceive(id) /\ UNCHANGED <<history, adapter>>
    \/ FairQueueAdmit /\ UNCHANGED <<history, adapter>>

SpecConcurrent == InitConcurrent /\ [][NextConcurrent]_vars

----------------------------------------------------------------------------
(* SpecRoundRobin: distinct peers are connected, then data messages are    *)
(* dispatched while the I/O tasks take them; the history records the order *)
(* of the connections, the peer every message was queued for, and whether  *)
(* a dispatch met a full queue.                                            *)

RoundRobinIds == {"A", "B", "C"}

Range(f) == {f[i] : i \in DOMAIN f}

\* the history a step of the caller leaves
Observe ==
    /\ connected' = connected
    /\ dispatched' =
          IF task[Caller].pc = "rr_get" /\ task'[Caller].pc = "rr_push"
          THEN Append(dispatched, task[Caller].next_peer_id)
          ELSE dispatched
    /\ full_seen' = (full_seen \/ task'[Caller].met_full)

NextRoundRobin ==
    \/ \E id \in RoundRobinIds \ Range(connected) :
            /\ dispatched = <<>>
            /\ ConnectAllowed(MaxPending)
            /\ Call_peer_connected(Caller, id)
            /\ connected' = Append(connected, id)
            /\ UNCHANGED <<dispatched, full_seen, adapter>>
    \/ \E message \in DataMessages :
            /\ Len(dispatched) < MaxDispatch
            /\ Call_send_round_robin(Caller, message)
            /\ UNCHANGED <<history, adapter>>
    \/ PeerConnectedInsert(Caller) /\ Observe /\ UNCHANGED adapter
    \/ PeerConnectedPush(Caller) /\ Observe /\ UNCHANGED adapter
    \/ PeerConnectedAnnounce(Caller) /\ Observe /\ UNCHANGED adapter
    \/ RoundRobinPop(Caller) /\ Observe /\ UNCHANGED adapter
    \/ RoundRobinGet(Caller) /\ Observe /\ UNCHANGED adapter
    \/ RoundRobinPush(Caller) /\ Observe /\ UNCHANGED adapter
    \/ RoundRobinRepush(Caller) /\ Observe /\ UNCHANGED adapter
    \/ \E id \in RoundRobinIds : IoTaskReceive(id) /\ UNCHANGED <<history, adapter>>
    \/ FairQueueAdmit /\ UNCHANGED <<history, adapter>>

SpecRoundRobin == Init /\ [][NextRoundRobin]_vars

----------------------------------------------------------------------------
(* SpecAnnounce: one caller connects and disconnects peers while the       *)
(* merger admits their announcements at any pace, or stops; announcements  *)
(* are let to wait beyond MaxPending here, so that one is made on an       *)
(* administrative channel that already holds more than its buffer.         *)

AnnounceIds == {"A", "B"}

InitAnnounce == InitBackend(ShardAssignments(AnnounceIds, "A")) /\ InitHistory

NextAnnounce ==
    \/ \E id \in AnnounceIds :
          ConnectAllowed(QueueSize + 2) /\ Call_peer_connected(Caller, id)
          /\ UNCHANGED <<history, adapter>>
    \/ PeerConnectedInsert(Caller) /\ UNCHANGED <<history, adapter>>
    \/ PeerConnectedPush(Caller) /\ UNCHANGED <<history, adapter>>
    \/ PeerConnectedAnnounce(Caller) /\ UNCHANGED <<history, adapter>>
    \/ \E id \in AnnounceIds :
          Call_peer_disconnected(Caller, id) /\ UNCHANGED <<history, adapter>>
    \/ PeerDisconnectedRemove(Caller) /\ UNCHANGED <<history, adapter>>
    \/ FairQueueAdmit /\ UNCHANGED <<history, adapter>>
    \/ FairQueueStop /\ UNCHANGED <<history, adapter>>

SpecAnnounce == InitAnnounce /\ [][NextAnnounce]_vars

----------------------------------------------------------------------------
(* SpecSlowPeer: one caller connects peers and dispatches data messages    *)
(* while the peers' I/O tasks drain their queues; no peer goes away.  The  *)
(* dispatch under way keeps taking steps, and an I/O task whose queue      *)
(* holds a message eventually takes it: the I/O tasks are tasks of their   *)
(* own, which a multi-threaded runtime runs while the dispatch loops.      *)

SlowPeerIds == {"A", "B"}

\* the steps of the dispatch under way, and of the I/O task of id
Dispatching ==
    /\ \/ RoundRobinPop(Caller)
       \/ RoundRobinGet(Caller)
       \/ RoundRobinPush(Caller)
       \/ RoundRobinRepush(Caller)
    /\ UNCHANGED <<history, adapter>>

Draining(id) == IoTaskReceive(id) /\ UNCHANGED <<history, adapter>>

NextSlowPeer ==
    \/ \E id \in SlowPeerIds :
          ConnectAllowed(MaxPending) /\ Call_peer_connected(Caller, id)
          /\ UNCHANGED <<history, adapter>>
    \/ PeerConnectedInsert(Caller) /\ UNCHANGED <<history, adapter>>
    \/ PeerConnectedPush(Caller) /\ UNCHANGED <<history, adapter>>
    \/ PeerConnectedAnnounce(Caller) /\ UNCHANGED <<history, adapter>>
    \/ \E message \in DataMessages :
          Call_send_round_robin(Caller, message) /\ UNCHANGED <<history, adapter>>
    \/ RoundRobinPop(Caller) /\ UNCHANGED <<history, adapter>>
    \/ RoundRobinGet(Caller) /\ UNCHANGED <<history, adapter>>
    \/ RoundRobinPush(Caller) /\ UNCHANGED <<history, adapter>>
    \/ RoundRobinRepush(Caller) /\ UNCHANGED <<history, adapter>>
    \/ \E id \in SlowPeerIds : IoTaskReceive(id) /\ UNCHANGED <<history, adapter>>
    \/ FairQueueAdmit /\ UNCHANGED <<history, adapter>>

SpecSlowPeer ==
    /\ Init
    /\ [][NextSlowPeer]_vars
    /\ WF_vars(Dispatching)
    /\ \A id \in SlowPeerIds : WF_vars(Draining(id))

----------------------------------------------------------------------------
(* SpecDispatch: the outbound side alone.  One caller connects and         *)
(* disconnects peers, shuts down and dispatches data messages, one call at *)
(* a time, while the peers' I/O tasks take messages from their queues or   *)
(* drop their receivers; no inbound message is handed in.                  *)

NextDispatch ==
    \/ \E message \in DataMessages :
          Call_send_round_robin(Caller, message) /\ UNCHANGED <<history, adapter>>
    \/ \E id \in CallerIds :
          ConnectAllowed(MaxPending) /\ Call_peer_connected(Caller, id)
          /\ UNCHANGED <<history, adapter>>
    \/ \E id \in CallerIds :
          Call_peer_disconnected(Caller, id) /\ UNCHANGED <<history, adapter>>
    \/ Call_shutdown(Caller) /\ UNCHANGED <<history, adapter>>
    \/ RoundRobinPop(Caller) /\ UNCHANGED <<history, adapter>>
    \/ RoundRobinGet(Caller) /\ UNCHANGED <<history, adapter>>
    \/ RoundRobinPush(Caller) /\ UNCHANGED <<history, adapter>>
    \/ RoundRobinRepush(Caller) /\ UNCHANGED <<history, adapter>>
    \/ PeerConnectedInsert(Caller) /\ UNCHANGED <<history, adapter>>
    \/ PeerConnectedPush(Caller) /\ UNCHANGED <<history, adapter>>
    \/ PeerConnectedAnnounce(Caller) /\ UNCHANGED <<history, adapter>>
    \/ PeerDisconnectedRemove(Caller) /\ UNCHANGED <<history, adapter>>
    \/ ShutdownClear(Caller) /\ UNCHANGED <<history, adapter>>
    \/ \E id \in CallerIds : IoTaskReceive(id) /\ UNCHANGED <<history, adapter>>
    \/ \E id \in CallerIds : IoTaskDropReceiver(id) /\ UNCHANGED <<history, adapter>>
    \/ FairQueueAdmit /\ UNCHANGED <<history, adapter>>

SpecDispatch == Init /\ [][NextDispatch]_vars

----------------------------------------------------------------------------
(* SpecReconnect: one caller connects peers that are not registered,       *)
(* disconnects peers and dispatches data messages, one call at a time, so  *)
(* that an identity is registered again only after it was disconnected.    *)

NextReconnect ==
    \/ \E id \in CallerIds \ Registered :
          ConnectAllowed(MaxPending) /\ Call_peer_connected(Caller, id)
          /\ UNCHANGED <<history, adapter>>
    \/ PeerConnectedInsert(Caller) /\ UNCHANGED <<history, adapter>>
    \/ PeerConnectedPush(Caller) /\ UNCHANGED <<history, adapter>>
    \/ PeerConnectedAnnounce(Caller) /\ UNCHANGED <<history, adapter>>
    \/ \E id \in CallerIds :
          Call_peer_disconnected(Caller, id) /\ UNCHANGED <<history, adapter>>
    \/ PeerDisconnectedRemove(Caller) /\ UNCHANGED <<history, adapter>>
    \/ \E message \in DataMessages :
          Call_send_round_robin(Caller, message) /\ UNCHANGED <<history, adapter>>
    \/ RoundRobinPop(Caller) /\ UNCHANGED <<history, adapter>>
    \/ RoundRobinGet(Caller) /\ UNCHANGED <<history, adapter>>
    \/ RoundRobinPush(Caller) /\ UNCHANGED <<history, adapter>>
    \/ RoundRobinRepush(Caller) /\ UNCHANGED <<history, adapter>>
    \/ \E id \in CallerIds : IoTaskReceive(id) /\ UNCHANGED <<history, adapter>>
    \/ FairQueueAdmit /\ UNCHANGED <<history, adapter>>

SpecReconnect == Init /\ [][NextReconnect]_vars

----------------------------------------------------------------------------
(* SpecConnect: a dispatcher in one task while another task connects peers *)
(* A and B and disconnects B only, so that no peer_disconnected and no     *)
(* shutdown affects A; the I/O tasks keep their receivers.                 *)

Newcomer == "A"
Leavers == {"B"}

NextConnect ==
    \/ \E message \in OneMessage :
          Call_send_round_robin(Dispatcher, message) /\ UNCHANGED <<history, adapter>>
    \/ RoundRobinPop(Dispatcher) /\ UNCHANGED <<history, adapter>>
    \/ RoundRobinGet(Dispatcher) /\ UNCHANGED <<history, adapter>>
    \/ RoundRobinPush(Dispatcher) /\ UNCHANGED <<history, adapter>>
    \/ RoundRobinRepush(Dispatcher) /\ UNCHANGED <<history, adapter>>
    \/ \E id \in ConcurrentIds :
          ConnectAllowed(MaxPending) /\ Call_peer_connected(PeerTask, id)
          /\ UNCHANGED <<history, adapter>>
    \/ PeerConnectedInsert(PeerTask) /\ UNCHANGED <<history, adapter>>
    \/ PeerConnectedPush(PeerTask) /\ UNCHANGED <<history, adapter>>
    \/ PeerConnectedAnnounce(PeerTask) /\ UNCHANGED <<history, adapter>>
    \/ \E id \in Leavers :
          Call_peer_disconnected(PeerTask, id) /\ UNCHANGED <<history, adapter>>
    \/ PeerDisconnectedRemove(PeerTask) /\ UNCHANGED <<history, adapter>>
    \/ \E id \in ConcurrentIds : IoTaskReceive(id) /\ UNCHANGED <<history, adapter>>
    \/ FairQueueAdmit /\ UNCHANGED <<history, adapter>>

SpecConnect == InitConcurrent /\ [][NextConnect]_vars

----------------------------------------------------------------------------
(* The REP adapter (rep.rs).  The framed stream yields Ok(message) or      *)
(* Err(e) items and then ends; this revision of the codec names its        *)
(* variants Message(frame) and MultipartMessage(frames).                   *)

MultipartMessage(frames) == [tag |-> "MultipartMessage", frames |-> frames]

Item(message) == [ok |-> TRUE, message |-> message]
CodecError == [ok |-> FALSE, message |-> NoMessage]

Payloads == {<<>>, <<1>>}
Frames == {Frame(data, more) : data \in Payloads, more \in BOOLEAN}

Items ==
    {Item(Message(f)) : f \in Frames}
    \cup {Item(MultipartMessage(<<Frame(<<>>, TRUE), Frame(<<1>>, FALSE)>>)),
          Item(Greeting), Item(Command), CodecError}

RECURSIVE SeqsUpTo(_, _)
SeqsUpTo(S, n) ==
    IF n = 0 THEN {<<>>}
    ELSE LET shorter == SeqsUpTo(S, n - 1)
         IN  shorter \cup {Append(q, x) : q \in shorter, x \in S}

Bytes(data) == [kind |-> "Ok", data |-> data]
Done == [kind |-> "Ok"]
Err(e) == [kind |-> "Err", error |-> e]
AssertFailed == [kind |-> "Panic", why |-> "assertion failed"]

SocketReturn(call, result) ==
    [socket EXCEPT !.pc = "idle", !.call = call, !.result = result]

\* mutant: the delimiter frame is written without the continuation flag
SendUnflagged(data, written) ==
    /\ socket.pc = "idle"
    /\ IF written
       THEN /\ sent' = Append(sent,
                    MultipartMessage(<<Frame(<<>>, FALSE), Frame(data, FALSE)>>))
            /\ socket' = [SocketReturn("send", Done) EXCEPT !.arg = data]
       ELSE /\ socket' = [SocketReturn("send", Err("io")) EXCEPT !.arg = data]
            /\ UNCHANGED sent
    /\ UNCHANGED <<backend, history, stream, server>>

\* RepSocket::send: the delimiter frame and the payload frame, written as
\* one multipart message; the write itself may fail
Send(data, written) ==
    /\ socket.pc = "idle"
    /\ IF written
       THEN /\ sent' = Append(sent,
                    MultipartMessage(<<Frame(<<>>, TRUE), Frame(data, FALSE)>>))
            /\ socket' = [SocketReturn("send", Done) EXCEPT !.arg = data]
       ELSE /\ socket' = [SocketReturn("send", Err("io")) EXCEPT !.arg = data]
            /\ UNCHANGED sent
    /\ UNCHANGED <<backend, history, stream, server>>

Call_recv ==
    /\ socket.pc = "idle"
    /\ socket' = [socket EXCEPT !.pc = "recv_delimiter", !.call = "recv",
                                 !.read = <<>>, !.result = [kind |-> "None"]]
    /\ UNCHANGED <<backend, history, stream, sent, server>>

\* what recv does with the first item: Some(Ok(Message(m))) is taken as the
\* delimiter and asserted to be one
Delimiter(item) ==
    IF ~item.ok THEN Err("codec")
    ELSE IF item.message.tag # "Message" THEN Err("Wrong message type received")
    ELSE IF item.message.m.data = <<>> /\ item.message.m.more THEN [kind |-> "None"]
    ELSE AssertFailed

\* let delimeter = self._inner.next().await, and the assert! on it
RecvDelimiter ==
    /\ socket.pc = "recv_delimiter"
    /\ IF stream = <<>>
       THEN /\ socket' = SocketReturn("recv", Err("NO_MESSAGE"))
            /\ UNCHANGED stream
       ELSE /\ stream' = Tail(stream)
            /\ socket' = [(IF Delimiter(Head(stream)).kind = "None"
                           THEN [socket EXCEPT !.pc = "recv_message"]
                           ELSE SocketReturn("recv", Delimiter(Head(stream))))
                          EXCEPT !.read = Append(socket.read, Head(stream))]
    /\ UNCHANGED <<backend, history, sent, server>>

\* what recv returns for the second item
Payload(item) ==
    IF ~item.ok THEN Err("codec")
    ELSE IF item.message.tag # "Message" THEN Err("Wrong message type received")
    ELSE Bytes(item.message.m.data)

\* mutant: a stream that ends after the delimiter yields an empty payload
RecvMessageDefault ==
    /\ socket.pc = "recv_message"
    /\ IF stream = <<>>
       THEN /\ socket' = SocketReturn("recv", Bytes(<<>>))
            /\ UNCHANGED stream
       ELSE /\ stream' = Tail(stream)
            /\ socket' = [SocketReturn("recv", Payload(Head(stream)))
                          EXCEPT !.read = Append(socket.read, Head(stream))]
    /\ UNCHANGED <<backend, history, sent, server>>

\* let message = self._inner.next().await, and the match on it
RecvMessage ==
    /\ socket.pc = "recv_message"
    /\ IF stream = <<>>
       THEN /\ socket' = SocketReturn("recv", Err("NO_MESSAGE"))
            /\ UNCHANGED stream
       ELSE /\ stream' = Tail(stream)
            /\ socket' = [SocketReturn("recv", Payload(Head(stream)))
                          EXCEPT !.read = Append(socket.read, Head(stream))]
    /\ UNCHANGED <<backend, history, sent, server>>

(* RepSocketServer::accept.  The outcomes of the TCP accept, of            *)
(* greet_exchange and of ready_exchange are inputs; greet and ready record *)
(* the exchanges this call has run.                                        *)

Call_accept ==
    /\ server.pc = "idle"
    /\ server' = [pc |-> "accept", greet |-> "none", ready |-> "none",
                  result |-> [kind |-> "None"]]
    /\ UNCHANGED <<backend, history, stream, sent, socket>>

ServerReturn(result) == [server EXCEPT !.pc = "idle", !.result = result]

\* let (socket, _) = self._inner.accept().await?
AcceptStream(ok) ==
    /\ server.pc = "accept"
    /\ server' = IF ok THEN [server EXCEPT !.pc = "greet"]
                 ELSE ServerReturn(Err("io"))
    /\ UNCHANGED <<backend, history, stream, sent, socket>>

\* mutant: the result of the greeting exchange is not propagated
AcceptGreetUnchecked(ok) ==
    /\ server.pc = "greet"
    /\ server' = [server EXCEPT !.pc = "ready", !.greet = IF ok THEN "Ok" ELSE "Err"]
    /\ UNCHANGED <<backend, history, stream, sent, socket>>

\* greet_exchange(&mut socket).await?
AcceptGreet(ok) ==
    /\ server.pc = "greet"
    /\ server' = IF ok THEN [server EXCEPT !.pc = "ready", !.greet = "Ok"]
                 ELSE [ServerReturn(Err("greeting")) EXCEPT !.greet = "Err"]
    /\ UNCHANGED <<backend, history, stream, sent, socket>>

\* ready_exchange(&mut socket, SocketType::REP).await?; Ok(Box::new(RepSocket))
AcceptReady(ok) ==
    /\ server.pc = "ready"
    /\ server' = IF ok THEN [ServerReturn([kind |-> "Ok"]) EXCEPT !.ready = "Ok"]
                 ELSE [ServerReturn(Err("ready")) EXCEPT !.ready = "Err"]
    /\ UNCHANGED <<backend, history, stream, sent, socket>>

(* SpecRep: a REP socket whose peer sends any items, at most MaxFrames of  *)
(* them, and then closes; and a server accepting connections               *)

InitRep ==
    /\ InitBackend({SpreadAssignment})
    /\ connected = <<>>
    /\ dispatched = <<>>
    /\ full_seen = FALSE
    /\ stream \in SeqsUpTo(Items, MaxFrames)
    /\ sent = <<>>
    /\ socket = NoSocketCall
    /\ server = [pc |-> "idle", greet |-> "none", ready |-> "none",
                 result |-> [kind |-> "None"]]

NextRep ==
    \/ \E data \in Payloads, written \in BOOLEAN : Len(sent) < 1 /\ Send(data, written)
    \/ Call_recv
    \/ RecvDelimiter
    \/ RecvMessage
    \/ Call_accept
    \/ \E ok \in BOOLEAN : AcceptStream(ok)
    \/ \E ok \in BOOLEAN : AcceptGreet(ok)
    \/ \E ok \in BOOLEAN : AcceptReady(ok)

SpecRep == InitRep /\ [][NextRep]_vars

(* SpecRepRoundTrip: what one REP socket sends is what its peer, running   *)
(* the same recv, reads.  The codec and the transport between them lie     *)
(* outside rep.rs: the frames of a multipart message travel one by one and *)
(* the peer's decoder yields each as a single-frame Message item, which is *)
(* the item shape recv matches on.                                         *)

Wire(message) ==
    [i \in 1..Len(message.frames) |-> Item(Message(message.frames[i]))]

\* the last message written reaches the peer's stream
Transport ==
    /\ socket.pc = "idle"
    /\ socket.call = "send"
    /\ socket.result = Done
    /\ sent # <<>>
    /\ stream = <<>>
    /\ stream' = Wire(sent[Len(sent)])
    /\ UNCHANGED <<backend, history, sent, socket, server>>

\* the payloads given to send: the byte strings of at most MaxBytes bytes
SentPayloads == SeqsUpTo({0, 1}, MaxBytes)

InitRepRoundTrip ==
    /\ InitBackend({SpreadAssignment})
    /\ InitHistory

NextRepRoundTrip ==
    \/ \E data \in SentPayloads, written \in BOOLEAN :
          stream = <<>> /\ Len(sent) < MaxFrames /\ Send(data, written)
    \/ Transport
    \/ Call_recv
    \/ RecvDelimiter
    \/ RecvMessage

SpecRepRoundTrip == InitRepRoundTrip /\ [][NextRepRoundTrip]_vars

----------------------------------------------------------------------------
(* Properties of the round-robin dispatch *)

\* task t takes a step of the call it is in
Steps(t) == task[t].pc # "idle" /\ task'[t] # task[t]

\* the number of entries of a sequence that equal x
Count(seq, x) == Cardinality({i \in 1..Len(seq) : seq[i] = x})

InRotation(id) == \E i \in 1..Len(round_robin) : round_robin[i] = id

IsControl(message) == message.tag \in {"Greeting", "Command"}

\* the no-connected-peers error, carrying the payload of message
CarriesPayload(result, message) ==
    \/ /\ message.tag = "Message"
       /\ result = [kind |-> "ReturnToSender", message |-> message.m]
    \/ /\ message.tag = "Multipart"
       /\ result = [kind |-> "ReturnToSenderMultipart", messages |-> message.m]

\* C1: with N distinct peers connected and then M dispatches queued, no
\* dispatch having met a full queue, every connected peer has been queued
\* floor(M/N) or ceil(M/N) of the M messages.
C1_FairShare ==
    LET N == Len(connected)
        M == Len(dispatched)
    IN  (~full_seen /\ M > 0) =>
            /\ N > 0
            /\ Range(dispatched) \subseteq Range(connected)
            /\ \A id \in Range(connected) :
                    /\ Count(dispatched, id) >= M \div N
                    /\ Count(dispatched, id) <= (M + N - 1) \div N

C1_Witness ==
    /\ ~full_seen
    /\ Len(connected) = 3
    /\ Len(dispatched) = 5
    /\ task[Caller].pc = "idle"

\* C2: with no dispatch having met a full queue, the k-th dispatch (from 0)
\* is queued for, and returns, the (k mod N)-th peer in connection order.
C2_ConnectionOrder ==
    LET N == Len(connected) IN
    ~full_seen =>
        /\ \A k \in 1..Len(dispatched) :
                N > 0 /\ dispatched[k] = connected[((k - 1) % N) + 1]
        /\ (Returned(Caller, "send_round_robin") /\ task[Caller].result.kind = "Ok") =>
                /\ dispatched # <<>>
                /\ task[Caller].result.peer = dispatched[Len(dispatched)]

C2_Witness ==
    /\ ~full_seen
    /\ connected = <<"A", "B", "C">>
    /\ dispatched = <<"A", "B", "C", "A">>
    /\ Returned(Caller, "send_round_robin")
    /\ task[Caller].result = Ok("A")

\* C3: a Greeting or a Command handed to send_round_robin is never queued
\* for a peer, and the call never goes on to return a chosen peer.
C3_ControlRejected ==
    /\ \A id \in Registered :
            \A i \in 1..Len(peers[id].send_queue.q) :
                ~IsControl(peers[id].send_queue.q[i])
    /\ \A t \in Tasks : IsControl(task[t].arg) => task[t].result.kind # "Ok"

\* C4, as claimed: a dispatch of a data message while no peer is registered
\* changes neither the registry, the peer queues nor the rotation queue, and
\* returns the no-connected-peers error with the payload.
C4_NothingChanged ==
    [][\A t \in Tasks :
        (Steps(t) /\ task[t].call = "send_round_robin" /\ IsData(task[t].arg)
            /\ Registered = {})
        => /\ UNCHANGED <<peers, round_robin>>
           /\ task'[t].pc = "idle" => CarriesPayload(task'[t].result, task[t].arg)
      ]_vars

\* C4, amended: such a dispatch leaves the registry and the peer queues
\* alone, changes the rotation queue only by taking stale identities off its
\* head, and returns, with the rotation queue empty, the no-connected-peers
\* error carrying the payload of the message it was given.
C4_NoPeersReturnsPayload ==
    [][\A t \in Tasks :
        (Steps(t) /\ task[t].call = "send_round_robin" /\ IsData(task[t].arg)
            /\ Registered = {})
        => /\ UNCHANGED peers
           /\ round_robin' = round_robin
                \/ (round_robin # <<>> /\ round_robin' = Tail(round_robin))
           /\ task'[t].pc = "idle" =>
                /\ round_robin' = <<>>
                /\ CarriesPayload(task'[t].result, task[t].arg)
      ]_vars

C4_Witness ==
    /\ Returned(Caller, "send_round_robin")
    /\ Registered = {}
    /\ round_robin = <<>>
    /\ task[Caller].arg.tag = "Multipart"
    /\ task[Caller].result = ReturnToSenderMultipart(task[Caller].arg.m)

\* C5: peer_disconnected(id) leaves id out of the registry, only the insert
\* of peer_connected(id) brings it back, and message_received(id, m) for an
\* id that is not registered returns without a panic, having queued m
\* nowhere and changed neither the registry nor the rotation queue.
C5_DisconnectedNoOp ==
    [][\A t \in Tasks :
        /\ (Steps(t) /\ task[t].pc = "pd_remove") =>
                /\ task[t].peer_id \notin DOMAIN peers'
                /\ task'[t].pc = "idle"
        /\ \A id \in (DOMAIN peers') \ Registered :
                \E u \in Tasks : task[u].pc = "pc_insert" /\ task[u].peer_id = id
        /\ (Steps(t) /\ task[t].call = "message_received"
                /\ task[t].peer_id \notin Registered) =>
                /\ task'[t].pc = "idle"
                /\ task'[t].result = Unit
                /\ UNCHANGED <<peers, round_robin, peer_queue_in, locks>>
      ]_vars

C5_Witness ==
    /\ Returned(Caller, "message_received")
    /\ task[Caller].result = Unit
    /\ task[Caller].peer_id \notin Registered
    /\ InRotation(task[Caller].peer_id)

\* C6: a dispatch that finds the popped peer's queue full queues nothing,
\* puts the peer back at the tail of the rotation and goes on with the same
\* message; a popped peer that is registered and has room is queued the
\* message the call was given, is put back at the tail and is returned.
C6_FullPeerSkipped ==
    [][\A t \in Tasks :
        LET id == task[t].next_peer_id IN
        /\ (Steps(t) /\ task[t].pc = "rr_get" /\ id \in Registered) =>
              IF peers[id].send_queue.parked
              THEN /\ UNCHANGED peers
                   /\ task'[t].pc = "rr_repush"
              ELSE peers[id].send_queue.open =>
                   /\ peers' = [peers EXCEPT ![id].send_queue.q =
                                    Append(@, task[t].arg),
                                 ![id].send_queue.parked =
                                    peers'[id].send_queue.parked]
                   /\ task'[t].pc = "rr_push"
        /\ (Steps(t) /\ task[t].pc = "rr_repush") =>
              /\ round_robin' = Append(round_robin, id)
              /\ UNCHANGED peers
              /\ task'[t].pc = "rr_pop"
              /\ task'[t].message = task[t].arg
        /\ (Steps(t) /\ task[t].pc = "rr_push") =>
              /\ round_robin' = Append(round_robin, id)
              /\ UNCHANGED peers
              /\ task'[t].pc = "idle"
              /\ task'[t].result = Ok(id)
      ]_vars

C6_Witness ==
    /\ Returned(Caller, "send_round_robin")
    /\ task[Caller].met_full
    /\ task[Caller].result.kind = "Ok"
    /\ \E id \in Registered \ {task[Caller].result.peer} :
            /\ peers[id].send_queue.parked
            /\ InRotation(id)
    /\ LET q == peers[task[Caller].result.peer].send_queue.q
       IN  q # <<>> /\ q[Len(q)] = task[Caller].arg

\* C7: a dispatch that has popped a peer never finds that peer's registry
\* shard held by a message_received call suspended on a full inbound queue.
C7_DispatchNeverWaits ==
    \A t \in Tasks :
        task[t].pc = "rr_get" =>
            ~\E u \in Tasks \ {t} :
                /\ locks[shard_of[task[t].next_peer_id]] = u
                /\ task[u].call = "message_received"
                /\ peers[task[u].peer_id].recv_queue_in.parked

----------------------------------------------------------------------------
(* Properties of the REP adapter *)

\* C9: accept runs the ready exchange only after a greeting exchange that
\* succeeded, returns a socket only when both exchanges succeeded, and
\* returns an error when either failed.
C9_HandshakeGatesAccept ==
    /\ server.ready # "none" => server.greet = "Ok"
    /\ server.pc = "ready" => server.greet = "Ok"
    /\ server.greet # "none" => server.pc # "greet"
    /\ server.ready # "none" => server.pc = "idle"
    /\ server.result.kind = "Ok" => (server.greet = "Ok" /\ server.ready = "Ok")
    /\ (server.pc = "idle" /\ (server.greet = "Err" \/ server.ready = "Err")) =>
            server.result.kind = "Err"

C9_Witness ==
    /\ server.pc = "idle"
    /\ server.greet = "Err"
    /\ server.ready = "none"
    /\ server.result.kind = "Err"

\* C10: recv returns an error, neither aborting nor returning a payload,
\* when the first item it reads is not the delimiter frame.
C10_NotDelimiterIsError ==
    [][(socket.pc = "recv_delimiter" /\ stream # <<>>
            /\ Head(stream) # Item(Message(Frame(<<>>, TRUE))))
        => (socket'.pc = "idle" /\ socket'.result.kind = "Err")
      ]_vars

\* C11: send(data) appends to the stream exactly one multipart message of
\* two frames, the empty delimiter with the continuation flag and then data
\* with the flag clear (and nothing when the write fails); a recv by the
\* peer that reads those two frames returns exactly data
C11_SendRoundTrip ==
    [][/\ (/\ socket.pc = "idle" /\ socket'.pc = "idle"
           /\ (socket' # socket \/ sent' # sent))
          => /\ socket'.call = "send"
             /\ IF socket'.result = Done
                THEN sent' = Append(sent, MultipartMessage(
                         <<Frame(<<>>, TRUE), Frame(socket'.arg, FALSE)>>))
                ELSE sent' = sent
       /\ (/\ socket.call = "recv" /\ socket.pc # "idle" /\ socket'.pc = "idle"
           /\ sent # <<>>
           /\ socket'.read = Wire(sent[Len(sent)]))
          => socket'.result = Bytes(socket'.arg)]_vars

C11_Witness ==
    /\ socket.pc = "idle"
    /\ socket.call = "recv"
    /\ sent # <<>>
    /\ socket.read = Wire(sent[Len(sent)])
    /\ socket.arg = <<1, 0>>
    /\ socket.result = Bytes(<<1, 0>>)

\* C12: a recv that returns having taken no item from the stream (it ended
\* before the delimiter), or having taken only a valid delimiter (it ended
\* before the payload), returns the no-message error
C12_EndOfStreamIsNoMessage ==
    (socket.pc = "idle" /\ socket.call = "recv")
    => /\ socket.read = <<>> => socket.result = Err("NO_MESSAGE")
       /\ (Len(socket.read) = 1 /\ Delimiter(socket.read[1]).kind = "None")
          => socket.result = Err("NO_MESSAGE")

C12_Witness ==
    /\ socket.pc = "idle"
    /\ socket.call = "recv"
    /\ socket.read = <<Item(Message(Frame(<<>>, TRUE)))>>
    /\ socket.result = Err("NO_MESSAGE")

\* the administrative channel holds more than its buffer: a sender that had
\* sent the last announcement is parked, and its try_send reports Full
AdminFull == Len(peer_queue_in.q) > QueueSize

\* what the announcement of id leaves when it succeeds
Announced(t) ==
    LET id == task[t].peer_id IN
    /\ task'[t].result = Unit
    /\ peer_queue_in'.q = Append(peer_queue_in.q, id)
    /\ id \in DOMAIN peers'
    /\ peers'[id] = Peer
    /\ \E i \in 1..Len(round_robin') : round_robin'[i] = id

\* C13 as stated: peer_connected fails fatally exactly when the
\* administrative channel is closed or full, and otherwise succeeds, leaving
\* id registered with fresh empty queues, in the rotation, and announced
C13_FailsWhenClosedOrFull ==
    [][\A t \in Tasks :
         (At(t, "pc_announce") /\ Steps(t))
         => /\ task'[t].pc = "idle"
            /\ (task'[t].result = Panic("unwrap"))
                  <=> (~peer_queue_in.open \/ AdminFull)
            /\ (peer_queue_in.open /\ ~AdminFull) => Announced(t)]_vars

\* C13, amended: peer_connected fails fatally exactly when the
\* administrative channel is closed; on an open channel, full or not, it
\* succeeds, leaving id registered with fresh empty queues, in the rotation,
\* and announced
C13_FailsOnlyWhenClosed ==
    [][\A t \in Tasks :
         (At(t, "pc_announce") /\ Steps(t))
         => /\ task'[t].pc = "idle"
            /\ (task'[t].result = Panic("unwrap")) <=> ~peer_queue_in.open
            /\ peer_queue_in.open => Announced(t)]_vars

\* an announcement has been accepted by a channel that was full
C13_Witness ==
    /\ Returned(Caller, "peer_connected")
    /\ task[Caller].result = Unit
    /\ peer_queue_in.open
    /\ Len(peer_queue_in.q) > QueueSize + 1
    /\ peer_queue_in.q[Len(peer_queue_in.q)] = task[Caller].peer_id

\* C14: shutdown returns with the registry empty; and while the registry is
\* empty every step of a dispatch of a data message touches no peer queue
\* and either takes one identity off the rotation queue, or finds that
\* identity unregistered and goes back for the next, or, the rotation queue
\* being empty, returns the no-connected-peers error carrying the message:
\* so the dispatch ends after discarding what the rotation queue held
C14_ShutdownStopsDelivery ==
    [][\A t \in Tasks :
        /\ (Steps(t) /\ task[t].call = "shutdown" /\ task'[t].pc = "idle")
           => DOMAIN peers' = {}
        /\ (Steps(t) /\ task[t].call = "send_round_robin" /\ IsData(task[t].arg)
              /\ Registered = {})
           => /\ UNCHANGED peers
              /\ task[t].pc \in {"rr_pop", "rr_get"}
              /\ (task[t].pc = "rr_pop" /\ round_robin # <<>>)
                 => /\ round_robin' = Tail(round_robin)
                    /\ task'[t].pc = "rr_get"
              /\ (task[t].pc = "rr_pop" /\ round_robin = <<>>)
                 => /\ task'[t].pc = "idle"
                    /\ CarriesPayload(task'[t].result, task[t].arg)
                    /\ UNCHANGED round_robin
              /\ task[t].pc = "rr_get"
                 => /\ task'[t].pc = "rr_pop"
                    /\ UNCHANGED round_robin
      ]_vars

\* shutdown has returned, leaving the identities of two peers in the rotation
C14_Witness ==
    /\ Returned(Caller, "shutdown")
    /\ Registered = {}
    /\ InRotation("A")
    /\ InRotation("B")

\* C15: while A is the only registered peer, a dispatch of a data message
\* returns nothing but Ok(A), which it does right after queueing the message
\* on A's queue; and a dispatch that finds A's queue full leads, A's I/O
\* task draining the queue, to that return
C15_SlowPeerIsRetried ==
    /\ [][(Steps(Caller) /\ task[Caller].call = "send_round_robin"
            /\ Registered = {"A"})
          => /\ task'[Caller].pc = "idle"
                => /\ task'[Caller].result = Ok("A")
                   /\ task[Caller].pc = "rr_push"
             /\ task'[Caller].pc = "rr_push"
                => peers'["A"].send_queue.q =
                      Append(peers["A"].send_queue.q, task[Caller].arg)]_vars
    /\ (/\ task[Caller].call = "send_round_robin"
        /\ task[Caller].pc # "idle"
        /\ Registered = {"A"}
        /\ peers["A"].send_queue.parked)
       ~> (/\ Returned(Caller, "send_round_robin")
           /\ task[Caller].result = Ok("A"))

\* a dispatch that met A's full queue has returned A
C15_Witness ==
    /\ Returned(Caller, "send_round_robin")
    /\ Registered = {"A"}
    /\ task[Caller].met_full
    /\ task[Caller].result = Ok("A")

\* the entries of a rotation queue whose identity is not in a registry
Stale(queue, map) == {i \in 1..Len(queue) : queue[i] \notin DOMAIN map}

\* C16: a dispatch that pops an identity absent from the registry queues
\* nothing, does not push the identity back and goes on to the next entry;
\* a dispatch queues a message only on, and returns only, an identity that
\* is registered; no step of a dispatch adds a stale entry to the rotation
\* queue; and a dispatch that finds only stale entries pushes nothing back
\* and returns with the rotation queue empty
C16_StaleDropped ==
    [][\A t \in Tasks :
        (Steps(t) /\ task[t].call = "send_round_robin")
        => /\ (task[t].pc = "rr_get" /\ task[t].next_peer_id \notin Registered)
              => /\ UNCHANGED <<peers, round_robin>>
                 /\ task'[t].pc = "rr_pop"
                 /\ task'[t].next_peer_id = NoId
           /\ peers' # peers
              => /\ task[t].next_peer_id \in Registered
                 /\ \A id \in Registered \ {task[t].next_peer_id} :
                        peers'[id] = peers[id]
           /\ (task'[t].pc = "idle" /\ task'[t].result.kind = "Ok")
              => task'[t].result.peer \in Registered
           /\ Cardinality(Stale(round_robin', peers'))
                 <= Cardinality(Stale(round_robin, peers))
           /\ (/\ Stale(round_robin, peers) = 1..Len(round_robin)
               /\ task[t].next_peer_id \notin Registered)
              => /\ Len(round_robin') <= Len(round_robin)
                 /\ task'[t].pc = "idle" => round_robin' = <<>>
      ]_vars

\* a dispatch has popped the identity of a disconnected peer, while a
\* registered peer waits in the rotation queue
C16_Witness ==
    /\ task[Caller].call = "send_round_robin"
    /\ task[Caller].pc = "rr_get"
    /\ task[Caller].next_peer_id = "A"
    /\ "A" \notin Registered
    /\ "B" \in Registered
    /\ InRotation("B")

\* C17: a dispatch that pops a registered peer whose outbound receiver was
\* dropped queues nothing, returns nothing for that peer, does not push it
\* back, and goes on to the next rotation entry with the same message; a
\* registered peer with room that it then pops is the peer it returns; and
\* it returns the no-connected-peers error only from an empty rotation queue
C17_ClosedPeerSkipped ==
    [][\A t \in Tasks :
        (Steps(t) /\ task[t].call = "send_round_robin")
        => LET id == task[t].next_peer_id IN
           /\ (/\ task[t].pc = "rr_get"
               /\ id \in Registered
               /\ ~peers[id].send_queue.open)
              => /\ UNCHANGED <<peers, round_robin>>
                 /\ task'[t].pc = "rr_pop"
                 /\ task'[t].message = task[t].arg
                 /\ task'[t].result = NoResult
           /\ (/\ task[t].pc = "rr_get"
               /\ id \in Registered
               /\ peers[id].send_queue.open
               /\ ~peers[id].send_queue.parked)
              => /\ task'[t].pc = "rr_push"
                 /\ task'[t].next_peer_id = id
           /\ task[t].pc = "rr_push"
              => /\ task'[t].pc = "idle"
                 /\ task'[t].result = Ok(id)
           /\ (task'[t].pc = "idle" /\ task'[t].result.kind # "Ok")
              => /\ task[t].pc = "rr_pop"
                 /\ round_robin = <<>>
                 /\ CarriesPayload(task'[t].result, task[t].arg)
      ]_vars

\* a dispatch has returned B after A, registered with its receiver dropped,
\* was taken out of the rotation
C17_Witness ==
    /\ Returned(Caller, "send_round_robin")
    /\ task[Caller].result = Ok("B")
    /\ "A" \in Registered
    /\ ~peers["A"].send_queue.open
    /\ ~InRotation("A")
    /\ InRotation("B")

\* C18: a step of a dispatch of a data message changes the peer queues only
\* by appending the message the call was given to the queue of one
\* registered peer; the message the call holds stays the one it was given;
\* a call that returns Ok(id) has put it once, on the queue of id, and on no
\* other queue; and a call that returns the no-connected-peers error has put
\* it on no queue and hands it back
C18_MessageConserved ==
    [][\A t \in Tasks :
        (Steps(t) /\ task[t].call = "send_round_robin" /\ IsData(task[t].arg))
        => /\ task'[t].pc # "idle" => task'[t].message = task[t].arg
           /\ IF peers' = peers
              THEN task'[t].queued_on = task[t].queued_on
              ELSE \E id \in Registered :
                    /\ peers' = [peers EXCEPT
                            ![id].send_queue.q = Append(@, task[t].arg),
                            ![id].send_queue.parked = peers'[id].send_queue.parked]
                    /\ task'[t].queued_on = Append(task[t].queued_on, id)
           /\ task'[t].pc = "idle"
              => IF task'[t].result.kind = "Ok"
                 THEN task'[t].queued_on = <<task'[t].result.peer>>
                 ELSE /\ task'[t].queued_on = <<>>
                      /\ CarriesPayload(task'[t].result, task[t].arg)
      ]_vars

\* a multipart message, passed over a full peer once, has been put on the
\* queue of the peer returned
C18_Witness ==
    /\ Returned(Caller, "send_round_robin")
    /\ task[Caller].arg.tag = "Multipart"
    /\ task[Caller].met_full
    /\ task[Caller].result = Ok("B")
    /\ task[Caller].queued_on = <<"B">>
    /\ Registered = {"A", "B"}
    /\ peers["B"].send_queue.q = <<task[Caller].arg>>
    /\ task[Caller].arg \notin {peers["A"].send_queue.q[i] :
                                    i \in 1..Len(peers["A"].send_queue.q)}

\* C19: between calls, the rotation queue holds at most one entry for each
\* identity that is in the registry
C19_OneEntryPerPeer ==
    (\A t \in Tasks : task[t].pc = "idle")
    => \A id \in Registered : Count(round_robin, id) <= 1

\* C20: with peer_connected(A) interleaved with the steps of a dispatch, and
\* A never disconnected, no entry of A in the rotation queue is stale and
\* the dispatch never holds A as popped while A is not registered; once
\* peer_connected(A) has returned A is in the registry, and once no dispatch
\* is under way either A is in the rotation queue
C20_NewEntryNeverStale ==
    /\ InRotation(Newcomer) => Newcomer \in Registered
    /\ \A t \in Tasks :
          (task[t].call = "send_round_robin" /\ task[t].next_peer_id = Newcomer)
          => Newcomer \in Registered
    /\ (Returned(PeerTask, "peer_connected") /\ task[PeerTask].peer_id = Newcomer)
       => Newcomer \in Registered
    /\ (Newcomer \in Registered /\ \A t \in Tasks : task[t].pc = "idle")
       => InRotation(Newcomer)

\* the dispatch under way has popped the entry that peer_connected(A), still
\* under way, has just pushed
C20_Witness ==
    /\ task[PeerTask].call = "peer_connected"
    /\ task[PeerTask].pc = "pc_announce"
    /\ task[PeerTask].peer_id = Newcomer
    /\ task[Dispatcher].call = "send_round_robin"
    /\ task[Dispatcher].pc = "rr_push"
    /\ task[Dispatcher].next_peer_id = Newcomer
    /\ ~InRotation(Newcomer)

====
